---- MODULE Spec2Model ----
(***************************************************************************)
(* Model of examples/status.c, the libgit2 "status" example: option        *)
(* parsing, the driver in main, the branch banner and the long and short   *)
(* renderers.                                                              *)
(*                                                                         *)
(* A status word is modelled as the set of its bits; GIT_STATUS_CURRENT    *)
(* (the value 0) is the empty set.  An output line is a record that keeps  *)
(* the pieces printf is given; Text turns it into the bytes written.       *)
(***************************************************************************)
EXTENDS Integers, Sequences, FiniteSets, TLC

VARIABLES
    pc,        \* position of the run in main / parse_opts
    argv,      \* argv[1..argc-1]
    pos,       \* args.pos of parse_opts
    o,         \* struct opts
    repo,      \* the repository git_repository_open_ext found: [open, bare, head]
    status,    \* the git_status_list handed to the renderers
    out,       \* stdout, a sequence of line records
    live,      \* handles acquired and not yet released, oldest first
    lifo,      \* FALSE once a release was not of the newest live handle
    built,     \* git_status_list_new has succeeded
    headerr,   \* git_repository_head failed with an error other than unborn/notfound
    exitcode   \* process exit code, -1 while running

vars == <<pc, argv, pos, o, repo, status, out, live, lifo, built, headerr, exitcode>>

----------------------------------------------------------------------------
(* Program constants *)

FORMAT_DEFAULT == 0
FORMAT_LONG == 1
FORMAT_SHORT == 2
FORMAT_PORCELAIN == 3
MAX_PATHSPEC == 8

GIT_STATUS_CURRENT == {}
IndexBits == {"INDEX_NEW", "INDEX_MODIFIED", "INDEX_DELETED", "INDEX_RENAMED",
              "INDEX_TYPECHANGE"}
WtBits == {"WT_NEW", "WT_MODIFIED", "WT_DELETED", "WT_RENAMED", "WT_TYPECHANGE"}
\* bits of git_status_t the renderers test, plus Conflicted, which the
\* data model lists and no renderer tests
StatusBits == IndexBits \cup WtBits \cup {"IGNORED", "CONFLICTED"}

SmBits == {"WD_MODIFIED", "WD_INDEX_MODIFIED", "WD_WD_MODIFIED", "WD_UNTRACKED"}

----------------------------------------------------------------------------
(* Bounds *)

MaxArgc == 3      \* longest argv drawn from the token sets
MaxEntries == 2   \* longest status list drawn from SmallEntries

----------------------------------------------------------------------------
(* Status entries *)

NoDelta == [present |-> FALSE, old |-> "", new |-> "", mode |-> "blob"]
Delta(a, b, m) == [present |-> TRUE, old |-> a, new |-> b, mode |-> m]
\* what git_submodule_lookup / git_submodule_status answer for the entry's path
NoSm == [lookup |-> FALSE, statusok |-> FALSE, bits |-> {}]
Entry(st, h, w, sm) == [status |-> st, head_to_index |-> h, index_to_workdir |-> w, sm |-> sm]

\* The library's contract for an entry: a delta the renderers dereference
\* without a NULL test is there, a printed path is never NULL, and only a
\* rename delta has two different paths.  Both deltas are about one file: the
\* workdir delta starts from the path the index delta ends at.
ValidEntry(e) ==
    /\ (e.status \cap IndexBits # {}) => e.head_to_index.present
    /\ (e.status \cap (WtBits \cup {"IGNORED"}) # {}) => e.index_to_workdir.present
    /\ (e.status # GIT_STATUS_CURRENT) =>
          (e.head_to_index.present \/ e.index_to_workdir.present)
    /\ (e.head_to_index.old # e.head_to_index.new) => "INDEX_RENAMED" \in e.status
    /\ (e.head_to_index.present /\ e.index_to_workdir.present) =>
          e.index_to_workdir.old = e.head_to_index.new
    /\ (e.index_to_workdir.old # e.index_to_workdir.new) => "WT_RENAMED" \in e.status
    /\ (e.index_to_workdir.mode # "commit") => e.sm = NoSm

HeadDeltas == {NoDelta, Delta("a.txt", "a.txt", "blob"), Delta("a.txt", "b.txt", "blob")}
WorkDeltas ==
    {NoDelta} \cup {Delta(p, p, "blob") : p \in {"a.txt", "b.txt"}}
    \cup {Delta(p, "c.txt", "blob") : p \in {"a.txt", "b.txt"}}

\* every status word over one entry
AllEntries ==
    {e \in {Entry(st, h, w, NoSm) : st \in SUBSET StatusBits, h \in HeadDeltas, w \in WorkDeltas} :
        ValidEntry(e)}

SmAnswers ==
    {NoSm, [lookup |-> TRUE, statusok |-> FALSE, bits |-> {}]}
    \cup {[lookup |-> TRUE, statusok |-> TRUE, bits |-> b] :
            b \in {{}, {"WD_MODIFIED", "WD_UNTRACKED"}, {"WD_INDEX_MODIFIED"},
                   {"WD_WD_MODIFIED", "WD_UNTRACKED"}, {"WD_UNTRACKED"}}}

\* the entries status lists of more than one entry are drawn from
SmallEntries ==
    {Entry({}, NoDelta, NoDelta, NoSm),
     Entry({}, NoDelta, Delta("a.txt", "a.txt", "blob"), NoSm),
     Entry({"INDEX_NEW"}, Delta("a.txt", "a.txt", "blob"), NoDelta, NoSm),
     Entry({"INDEX_NEW", "WT_DELETED"}, Delta("a.txt", "a.txt", "blob"),
           Delta("a.txt", "a.txt", "blob"), NoSm),
     Entry({"INDEX_RENAMED", "WT_MODIFIED"}, Delta("a.txt", "b.txt", "blob"),
           Delta("b.txt", "b.txt", "blob"), NoSm),
     Entry({"INDEX_RENAMED", "WT_RENAMED"}, Delta("a.txt", "b.txt", "blob"),
           Delta("b.txt", "c.txt", "blob"), NoSm),
     Entry({"WT_MODIFIED"}, NoDelta, Delta("a.txt", "a.txt", "blob"), NoSm),
     Entry({"WT_DELETED"}, NoDelta, Delta("b.txt", "b.txt", "blob"), NoSm),
     Entry({"WT_NEW"}, NoDelta, Delta("c.txt", "c.txt", "blob"), NoSm),
     Entry({"WT_RENAMED"}, NoDelta, Delta("b.txt", "c.txt", "blob"), NoSm),
     Entry({"IGNORED"}, NoDelta, Delta("b.txt", "b.txt", "blob"), NoSm)}
    \cup {Entry({"WT_MODIFIED"}, NoDelta, Delta("sub", "sub", "commit"), sm) : sm \in SmAnswers}

RECURSIVE SeqsUpTo(_, _)
SeqsUpTo(S, n) ==
    IF n = 0 THEN {<<>>}
    ELSE LET shorter == SeqsUpTo(S, n - 1)
         IN  shorter \cup {Append(q, x) : q \in {r \in shorter : Len(r) = n - 1}, x \in S}

RenderLists == {<<e>> : e \in AllEntries} \cup SeqsUpTo(SmallEntries, MaxEntries)

----------------------------------------------------------------------------
(* Output lines *)

\* sec names the printf that wrote the line; i is the index of the entry it
\* was written for (0 for a line that belongs to no entry)
\* lead is the label of a line of print_long, x and y the two status
\* characters of a line of print_short
TextLine(sec, s) ==
    [sec |-> sec, i |-> 0, lead |-> "", x |-> "", y |-> "", paths |-> <<>>, extra |-> "",
     text |-> s]
LongEntryLine(sec, i, lead, paths) ==
    [sec |-> sec, i |-> i, lead |-> lead, x |-> "", y |-> "", paths |-> paths, extra |-> "",
     text |-> ""]
ShortEntryLine(sec, i, x, y, paths, extra) ==
    [sec |-> sec, i |-> i, lead |-> "", x |-> x, y |-> y, paths |-> paths, extra |-> extra,
     text |-> ""]

RECURSIVE Join(_, _)
Join(ps, sep) ==
    IF ps = <<>> THEN ""
    ELSE IF Len(ps) = 1 THEN ps[1]
    ELSE ps[1] \o sep \o Join(Tail(ps), sep)

\* the bytes one line record stands for
Text(l) ==
    CASE l.sec \in {"index", "workdir"} ->
            "#\t" \o l.lead \o "  " \o Join(l.paths, " -> ") \o "\n"
      [] l.sec \in {"untracked", "ignored"} -> "#\t" \o l.paths[1] \o "\n"
      [] l.sec = "short" -> l.x \o l.y \o " " \o Join(l.paths, " ") \o l.extra \o "\n"
      [] l.sec = "short_untracked" -> "?? " \o l.paths[1] \o "\n"
      [] OTHER -> l.text

RECURSIVE Bytes(_)
Bytes(ls) == IF ls = <<>> THEN "" ELSE Text(Head(ls)) \o Bytes(Tail(ls))

----------------------------------------------------------------------------
(* Glyphs: a run of "if (status & BIT) glyph = G" statements *)

\* table is the run in source order; a later line that matches overwrites
RECURSIVE Overwrite(_, _, _)
Overwrite(st, table, cur) ==
    IF table = <<>> THEN cur
    ELSE Overwrite(st, Tail(table), IF Head(table)[1] \in st THEN Head(table)[2] ELSE cur)

LongIndexTable ==
    << <<"INDEX_NEW", "new file: ">>, <<"INDEX_MODIFIED", "modified: ">>,
       <<"INDEX_DELETED", "deleted:  ">>, <<"INDEX_RENAMED", "renamed:  ">>,
       <<"INDEX_TYPECHANGE", "typechange:">> >>

LongWorkdirTable ==
    << <<"WT_MODIFIED", "modified: ">>, <<"WT_DELETED", "deleted:  ">>,
       <<"WT_RENAMED", "renamed:  ">>, <<"WT_TYPECHANGE", "typechange:">> >>

\* faulty variant: the tests for modified and renamed in the other order
ShortIndexTableSwapped ==
    << <<"INDEX_NEW", "A">>, <<"INDEX_RENAMED", "R">>, <<"INDEX_DELETED", "D">>,
       <<"INDEX_MODIFIED", "M">>, <<"INDEX_TYPECHANGE", "T">> >>

ShortIndexTable ==
    << <<"INDEX_NEW", "A">>, <<"INDEX_MODIFIED", "M">>, <<"INDEX_DELETED", "D">>,
       <<"INDEX_RENAMED", "R">>, <<"INDEX_TYPECHANGE", "T">> >>

ShortWorkdirTable ==
    << <<"WT_MODIFIED", "M">>, <<"WT_DELETED", "D">>, <<"WT_RENAMED", "R">>,
       <<"WT_TYPECHANGE", "T">> >>

\* the "" glyph is the NULL istatus / wstatus of print_long
LongIstatus(st) == Overwrite(st, LongIndexTable, "")
LongWstatus(st) == Overwrite(st, LongWorkdirTable, "")

\* faulty variant: the test for GIT_STATUS_CURRENT left out
IsCurrentNever(s) == FALSE

\* the first test of each loop body
IsCurrent(s) == s.status = GIT_STATUS_CURRENT

----------------------------------------------------------------------------
(* print_long *)

IndexHeader ==
    << TextLine("index_header", "# Changes to be committed:\n"),
       TextLine("index_header", "#   (use \"git reset HEAD <file>...\" to unstage)\n"),
       TextLine("index_header", "#\n") >>

WorkdirHeader(rm_in_workdir) ==
    << TextLine("workdir_header", "# Changes not staged for commit:\n"),
       TextLine("workdir_header",
                "#   (use \"git add" \o (IF rm_in_workdir THEN "/rm" ELSE "")
                \o " <file>...\" to update what will be committed)\n"),
       TextLine("workdir_header",
                "#   (use \"git checkout -- <file>...\" to discard changes in working directory)\n"),
       TextLine("workdir_header", "#\n") >>

UntrackedHeader ==
    << TextLine("untracked_header", "# Untracked files:\n"),
       TextLine("untracked_header",
                "#   (use \"git add <file>...\" to include in what will be committed)\n"),
       TextLine("untracked_header", "#\n") >>

IgnoredHeader ==
    << TextLine("ignored_header", "# Ignored files:\n"),
       TextLine("ignored_header",
                "#   (use \"git add -f <file>...\" to include in what will be committed)\n"),
       TextLine("ignored_header", "#\n") >>

\* "old -> new" when the two paths differ, else the one path
LongPaths(d) == IF d.old # d.new THEN <<d.old, d.new>> ELSE <<d.old>>

\* the entries a pass of print_long prints a line for
InIndexPass(s) == ~IsCurrent(s) /\ LongIstatus(s.status) # ""
InWorkdirPass(s) ==
    ~(IsCurrent(s) \/ ~s.index_to_workdir.present) /\ LongWstatus(s.status) # ""
InUntrackedPass(s) == s.status = {"WT_NEW"}
\* faulty variant: the ignored pass tests the bit instead of the whole word
InIgnoredPassBit(s) == "IGNORED" \in s.status
InIgnoredPass(s) == s.status = {"IGNORED"}

\* the line a pass prints for entry i
LongLine(sec, s, i) ==
    CASE sec = "index" -> LongEntryLine(sec, i, LongIstatus(s.status), LongPaths(s.head_to_index))
      [] sec = "workdir" ->
            LongEntryLine(sec, i, LongWstatus(s.status), LongPaths(s.index_to_workdir))
      [] OTHER -> LongEntryLine(sec, i, "", <<s.index_to_workdir.old>>)

InPass(sec, s) ==
    CASE sec = "index" -> InIndexPass(s)
      [] sec = "workdir" -> InWorkdirPass(s)
      [] sec = "untracked" -> InUntrackedPass(s)
      [] OTHER -> InIgnoredPass(s)

\* one loop of print_long from entry i on; header is the loop's header flag
RECURSIVE LongLoop(_, _, _, _, _)
LongLoop(sec, hdr, st, i, header) ==
    IF i > Len(st) THEN [lines |-> <<>>, header |-> header]
    ELSE IF ~InPass(sec, st[i]) THEN LongLoop(sec, hdr, st, i + 1, header)
    ELSE LET rest == LongLoop(sec, hdr, st, i + 1, TRUE)
         IN  [lines |-> (IF header THEN <<>> ELSE hdr) \o <<LongLine(sec, st[i], i)>> \o rest.lines,
              header |-> TRUE]

rm_in_workdir(st) ==
    \E i \in 1..Len(st) : ~IsCurrent(st[i]) /\ "WT_DELETED" \in st[i].status

print_long(st) ==
    LET p1 == LongLoop("index", IndexHeader, st, 1, FALSE)
        changes_in_index == p1.header
        p2 == LongLoop("workdir", WorkdirHeader(rm_in_workdir(st)), st, 1, FALSE)
        changed_in_workdir == p2.header
        p3 == LongLoop("untracked", UntrackedHeader, st, 1, FALSE)
        p4 == LongLoop("ignored", IgnoredHeader, st, 1, FALSE)
    IN  p1.lines \o (IF p1.header THEN <<TextLine("sep", "#\n")>> ELSE <<>>)
        \o p2.lines \o (IF p2.header THEN <<TextLine("sep", "#\n")>> ELSE <<>>)
        \o p3.lines \o p4.lines
        \o (IF ~changes_in_index /\ changed_in_workdir
            THEN <<TextLine("trailer",
                     "no changes added to commit (use \"git add\" and/or \"git commit -a\")\n")>>
            ELSE <<>>)

----------------------------------------------------------------------------
(* print_short *)

ShortIstatus(st) ==
    LET x == Overwrite(st, ShortIndexTable, " ")
        x2 == IF "WT_NEW" \in st /\ x = " " THEN "?" ELSE x
    IN  IF "IGNORED" \in st THEN "!" ELSE x2

ShortWstatus(st) ==
    LET y == Overwrite(st, ShortWorkdirTable, IF "WT_NEW" \in st THEN "?" ELSE " ")
    IN  IF "IGNORED" \in st THEN "!" ELSE y

\* entries the main loop prints nothing for
ShortSkip(s) ==
    \/ IsCurrent(s)
    \/ (ShortIstatus(s.status) = "?" /\ ShortWstatus(s.status) = "?")

\* the entry reaches the submodule block and the lookup hands back a submodule
LooksUpSubmodule(s) ==
    /\ ~ShortSkip(s)
    /\ s.index_to_workdir.present /\ s.index_to_workdir.mode = "commit"
    /\ s.sm.lookup

ShortExtra(s) ==
    IF s.index_to_workdir.present /\ s.index_to_workdir.mode = "commit"
       /\ s.sm.lookup /\ s.sm.statusok
    THEN IF "WD_MODIFIED" \in s.sm.bits THEN " (new commits)"
         ELSE IF "WD_INDEX_MODIFIED" \in s.sm.bits THEN " (modified content)"
         ELSE IF "WD_WD_MODIFIED" \in s.sm.bits THEN " (modified content)"
         ELSE IF "WD_UNTRACKED" \in s.sm.bits THEN " (untracked content)"
         ELSE ""
    ELSE ""

\* a, b, c of the main loop; "" is NULL
ShortA(s) ==
    LET a0 == IF s.head_to_index.present THEN s.head_to_index.old ELSE ""
    IN  IF s.index_to_workdir.present /\ a0 = "" THEN s.index_to_workdir.old ELSE a0
ShortB(s) ==
    LET b0 == IF s.head_to_index.present THEN s.head_to_index.new ELSE ""
    IN  IF s.index_to_workdir.present /\ b0 = "" THEN s.index_to_workdir.old ELSE b0
ShortC(s) == IF s.index_to_workdir.present THEN s.index_to_workdir.new ELSE ""

\* faulty variant: a worktree rename prints b where c belongs
ShortPathsWrongPair(s) ==
    LET istatus == ShortIstatus(s.status)
        wstatus == ShortWstatus(s.status)
    IN  IF istatus = "R"
        THEN IF wstatus = "R" THEN <<ShortA(s), ShortB(s), ShortC(s)>>
             ELSE <<ShortA(s), ShortB(s)>>
        ELSE IF wstatus = "R" THEN <<ShortA(s), ShortB(s)>>
             ELSE <<ShortA(s)>>

ShortPaths(s) ==
    LET istatus == ShortIstatus(s.status)
        wstatus == ShortWstatus(s.status)
    IN  IF istatus = "R"
        THEN IF wstatus = "R" THEN <<ShortA(s), ShortB(s), ShortC(s)>>
             ELSE <<ShortA(s), ShortB(s)>>
        ELSE IF wstatus = "R" THEN <<ShortA(s), ShortC(s)>>
             ELSE <<ShortA(s)>>

RECURSIVE ShortMainLoop(_, _)
ShortMainLoop(st, i) ==
    IF i > Len(st) THEN <<>>
    ELSE IF ShortSkip(st[i]) THEN ShortMainLoop(st, i + 1)
    ELSE <<ShortEntryLine("short", i, ShortIstatus(st[i].status), ShortWstatus(st[i].status),
                          ShortPaths(st[i]), ShortExtra(st[i]))>>
         \o ShortMainLoop(st, i + 1)

\* faulty variant: the second loop tests the bit instead of the whole word
ShortUntrackedBit(s) == "WT_NEW" \in s.status

\* the test of the second loop
ShortUntracked(s) == s.status = {"WT_NEW"}

RECURSIVE ShortUntrackedLoop(_, _)
ShortUntrackedLoop(st, i) ==
    IF i > Len(st) THEN <<>>
    ELSE IF ShortUntracked(st[i])
    THEN <<ShortEntryLine("short_untracked", i, "?", "?", <<st[i].index_to_workdir.old>>, "")>>
         \o ShortUntrackedLoop(st, i + 1)
    ELSE ShortUntrackedLoop(st, i + 1)

print_short(st) == ShortMainLoop(st, 1) \o ShortUntrackedLoop(st, 1)

\* the submodules print_short looked up, in order
RECURSIVE SubmodulesOf(_)
SubmodulesOf(st) ==
    IF st = <<>> THEN <<>>
    ELSE (IF LooksUpSubmodule(Head(st)) THEN <<"submodule">> ELSE <<>>) \o SubmodulesOf(Tail(st))

----------------------------------------------------------------------------
(* parse_opts *)

PathArgs == {"a.txt"}
GitDirArgs == {"--git-dir=/r"}
UnsupportedArgs == {"--bogus"}
Tokens ==
    {"-s", "--short", "--long", "--porcelain", "-b", "--branch", "-z", "--ignored",
     "-uno", "--untracked-files=no", "-unormal", "--untracked-files=normal",
     "-uall", "--untracked-files=all", "--ignore-submodules=all"}
    \cup GitDirArgs \cup PathArgs \cup UnsupportedArgs

\* struct opts o = { GIT_STATUS_OPTIONS_INIT, "." }
OptsInit ==
    [format |-> FORMAT_DEFAULT, zterm |-> 0, showbranch |-> 0, npaths |-> 0,
     pathspec_count |-> 0, repodir |-> ".", flags |-> {}]

\* the if-chain of the loop body for a token that is not fatal
\* faulty variant: -z sets porcelain whatever the format was
ZFormatAlways(f) == FORMAT_PORCELAIN

\* what -z makes of the format
ZFormat(f) == IF f = FORMAT_DEFAULT THEN FORMAT_PORCELAIN ELSE f

ParseToken(opts, a) ==
    CASE a \in PathArgs -> [opts EXCEPT !.npaths = @ + 1]
      [] a \in {"-s", "--short"} -> [opts EXCEPT !.format = FORMAT_SHORT]
      [] a = "--long" -> [opts EXCEPT !.format = FORMAT_LONG]
      [] a = "--porcelain" -> [opts EXCEPT !.format = FORMAT_PORCELAIN]
      [] a \in {"-b", "--branch"} -> [opts EXCEPT !.showbranch = 1]
      [] a = "-z" ->
            [opts EXCEPT !.zterm = 1, !.format = ZFormat(@)]
      [] a = "--ignored" -> [opts EXCEPT !.flags = @ \cup {"INCLUDE_IGNORED"}]
      [] a \in {"-uno", "--untracked-files=no"} ->
            [opts EXCEPT !.flags = @ \ {"INCLUDE_UNTRACKED"}]
      [] a \in {"-unormal", "--untracked-files=normal"} ->
            [opts EXCEPT !.flags = @ \cup {"INCLUDE_UNTRACKED"}]
      [] a \in {"-uall", "--untracked-files=all"} ->
            [opts EXCEPT !.flags = @ \cup {"INCLUDE_UNTRACKED", "RECURSE_UNTRACKED_DIRS"}]
      [] a = "--ignore-submodules=all" ->
            [opts EXCEPT !.flags = @ \cup {"EXCLUDE_SUBMODULES"}]
      [] a \in GitDirArgs -> [opts EXCEPT !.repodir = "/r"]
      [] OTHER -> opts

\* the tokens the loop body ends the run on
ParseFatalToken(opts, a) ==
    \/ a \in PathArgs /\ ~(opts.npaths < MAX_PATHSPEC)
    \/ a \notin PathArgs /\ a \in UnsupportedArgs

\* the statements after the loop
Normalize(opts) ==
    LET o1 == IF opts.format = FORMAT_DEFAULT THEN [opts EXCEPT !.format = FORMAT_LONG] ELSE opts
        o2 == IF o1.format = FORMAT_LONG THEN [o1 EXCEPT !.showbranch = 1] ELSE o1
    IN  IF o2.npaths > 0 THEN [o2 EXCEPT !.pathspec_count = o2.npaths] ELSE o2

----------------------------------------------------------------------------
(* Handles and process exit *)

Acquire(l, h) == Append(l, h)

\* l without its newest h
RECURSIVE DropNewest(_, _)
DropNewest(l, h) ==
    IF l = <<>> THEN <<>>
    ELSE IF l[Len(l)] = h THEN SubSeq(l, 1, Len(l) - 1)
    ELSE Append(DropNewest(SubSeq(l, 1, Len(l) - 1), h), l[Len(l)])

IsNewest(l, h) == l # <<>> /\ l[Len(l)] = h

\* fatal / a failing check_lg2: a diagnostic, then the process exits non-zero
\* with nothing released
Fatal ==
    /\ pc' = "fatal"
    /\ exitcode' = 1
    /\ UNCHANGED <<live, lifo>>

----------------------------------------------------------------------------
(* The repository's HEAD, as show_branch sees it *)

\* answers of git_repository_head: the error code and the reference's name,
\* split at the slashes
HeadMain == [error |-> "ok", name |-> <<"refs", "heads", "main">>]
HeadAnswers ==
    {HeadMain,
     [error |-> "ok", name |-> <<"refs", "heads", "topic", "x">>],
     [error |-> "ok", name |-> <<"HEAD">>],
     [error |-> "GIT_EUNBORNBRANCH", name |-> <<>>],
     [error |-> "GIT_ENOTFOUND", name |-> <<>>],
     [error |-> "GIT_ERROR", name |-> <<>>]}

\* the name with a leading "refs/heads/" taken off; "" is a NULL branch
BranchName(h) ==
    IF h.error # "ok" THEN ""
    ELSE IF Len(h.name) > 2 /\ h.name[1] = "refs" /\ h.name[2] = "heads"
    THEN Join(SubSeq(h.name, 3, Len(h.name)), "/")
    ELSE Join(h.name, "/")

Banner(format, branch) ==
    IF format = FORMAT_LONG
    THEN TextLine("banner", "# On branch "
                  \o (IF branch # "" THEN branch ELSE "Not currently on any branch.") \o "\n")
    ELSE TextLine("banner", "## " \o (IF branch # "" THEN branch ELSE "HEAD (no branch)") \o "\n")

\* any error but unborn / notfound goes to check_lg2
HeadIsFatal(h) == h.error \notin {"ok", "GIT_EUNBORNBRANCH", "GIT_ENOTFOUND"}

\* the repository before git_repository_open_ext
NoRepo == [open |-> FALSE, bare |-> FALSE, head |-> [error |-> "GIT_ENOTFOUND", name |-> <<>>]]

----------------------------------------------------------------------------
(* main *)

\* git_threads_init and the option defaults
ThreadsInit ==
    /\ pc = "start"
    /\ pc' = "parse"
    /\ live' = Acquire(live, "threads")
    /\ o' = [o EXCEPT !.flags = {"INCLUDE_UNTRACKED", "RENAMES_HEAD_TO_INDEX",
                                  "SORT_CASE_SENSITIVELY"}]
    /\ pos' = 1
    /\ UNCHANGED <<argv, repo, status, out, lifo, built, headerr, exitcode>>

\* one turn of the loop of parse_opts
ParseArg ==
    /\ pc = "parse"
    /\ pos <= Len(argv)
    /\ ~ParseFatalToken(o, argv[pos])
    /\ o' = ParseToken(o, argv[pos])
    /\ pos' = pos + 1
    /\ UNCHANGED <<pc, argv, repo, status, out, live, lifo, built, headerr, exitcode>>

ParseFatal ==
    /\ pc = "parse"
    /\ pos <= Len(argv)
    /\ ParseFatalToken(o, argv[pos])
    /\ Fatal
    /\ UNCHANGED <<argv, pos, o, repo, status, out, built, headerr>>

\* the loop of parse_opts is over
ParseDone ==
    /\ pc = "parse"
    /\ pos > Len(argv)
    /\ o' = Normalize(o)
    /\ pc' = "open"
    /\ UNCHANGED <<argv, pos, repo, status, out, live, lifo, built, headerr, exitcode>>

OpenRepo ==
    /\ pc = "open"
    /\ \E bare \in BOOLEAN, h \in HeadAnswers :
          repo' = [open |-> TRUE, bare |-> bare, head |-> h]
    /\ live' = Acquire(live, "repo")
    /\ pc' = "bare"
    /\ UNCHANGED <<argv, pos, o, status, out, lifo, built, headerr, exitcode>>

OpenFail ==
    /\ pc = "open"
    /\ Fatal
    /\ UNCHANGED <<argv, pos, o, repo, status, out, built, headerr>>

BareFatal ==
    /\ pc = "bare"
    /\ repo.bare
    /\ Fatal
    /\ UNCHANGED <<argv, pos, o, repo, status, out, built, headerr>>

NotBare ==
    /\ pc = "bare"
    /\ ~repo.bare
    /\ pc' = "status"
    /\ UNCHANGED <<argv, pos, o, repo, status, out, live, lifo, built, headerr, exitcode>>

MainEntries ==
    {Entry({"WT_MODIFIED"}, NoDelta, Delta("a.txt", "a.txt", "blob"), NoSm),
     Entry({"INDEX_NEW"}, Delta("a.txt", "a.txt", "blob"), NoDelta, NoSm),
     Entry({"WT_MODIFIED"}, NoDelta, Delta("sub", "sub", "commit"),
           [lookup |-> TRUE, statusok |-> TRUE, bits |-> {"WD_MODIFIED"}])}
MainLists == SeqsUpTo(MainEntries, 1)

StatusListNew ==
    /\ pc = "status"
    /\ \E l \in MainLists : status' = l
    /\ built' = TRUE
    /\ live' = Acquire(live, "status_list")
    /\ pc' = "branch"
    /\ UNCHANGED <<argv, pos, o, repo, out, lifo, headerr, exitcode>>

\* faulty variant: the result of git_status_list_new is not checked
StatusListFailUnchecked ==
    /\ pc = "status"
    /\ pc' = "branch"
    /\ UNCHANGED <<argv, pos, o, repo, status, out, live, lifo, built, headerr, exitcode>>

StatusListFail ==
    /\ pc = "status"
    /\ Fatal
    /\ UNCHANGED <<argv, pos, o, repo, status, out, built, headerr>>

\* faulty variant: the banner is printed whatever o.showbranch is
WantsBranchAlways(opts) == TRUE

\* if (o.showbranch)
WantsBranch(opts) == opts.showbranch # 0

NoBranch ==
    /\ pc = "branch"
    /\ ~WantsBranch(o)
    /\ pc' = "print"
    /\ UNCHANGED <<argv, pos, o, repo, status, out, live, lifo, built, headerr, exitcode>>

----------------------------------------------------------------------------
(* show_branch *)

ShowBranch ==
    /\ pc = "branch"
    /\ WantsBranch(o)
    /\ LET h == repo.head IN
          /\ ~HeadIsFatal(h)
          /\ out' = Append(out, Banner(o.format, BranchName(h)))
          \* head is acquired on success and freed as the function's last
          \* statement, with nothing acquired in between
          /\ lifo' = (lifo /\ (h.error = "ok" => IsNewest(Acquire(live, "head"), "head")))
          /\ live' = IF h.error = "ok" THEN DropNewest(Acquire(live, "head"), "head") ELSE live
    /\ pc' = "print"
    /\ UNCHANGED <<argv, pos, o, repo, status, built, headerr, exitcode>>

ShowBranchFatal ==
    /\ pc = "branch"
    /\ WantsBranch(o)
    /\ HeadIsFatal(repo.head)
    /\ headerr' = TRUE
    /\ Fatal
    /\ UNCHANGED <<argv, pos, o, repo, status, out, built>>

----------------------------------------------------------------------------
(* main, continued *)

PrintLong ==
    /\ pc = "print"
    /\ o.format = FORMAT_LONG
    /\ out' = out \o print_long(status)
    /\ pc' = "free_status"
    /\ UNCHANGED <<argv, pos, o, repo, status, live, lifo, built, headerr, exitcode>>

PrintShort ==
    /\ pc = "print"
    /\ o.format # FORMAT_LONG
    /\ out' = out \o print_short(status)
    /\ live' = live \o SubmodulesOf(status)
    /\ pc' = "free_status"
    /\ UNCHANGED <<argv, pos, o, repo, status, lifo, built, headerr, exitcode>>

Release(h) ==
    /\ lifo' = (lifo /\ IsNewest(live, h))
    /\ live' = DropNewest(live, h)

StatusListFree ==
    /\ pc = "free_status"
    /\ Release("status_list")
    /\ pc' = "free_repo"
    /\ UNCHANGED <<argv, pos, o, repo, status, out, built, headerr, exitcode>>

RepositoryFree ==
    /\ pc = "free_repo"
    /\ Release("repo")
    /\ pc' = "shutdown"
    /\ UNCHANGED <<argv, pos, o, repo, status, out, built, headerr, exitcode>>

\* git_threads_shutdown and return 0
ThreadsShutdown ==
    /\ pc = "shutdown"
    /\ Release("threads")
    /\ pc' = "done"
    /\ exitcode' = 0
    /\ UNCHANGED <<argv, pos, o, repo, status, out, built, headerr>>

----------------------------------------------------------------------------
(* Specifications *)

MainTokens == {"-s", "--short", "-b", "--long", "a.txt", "--bogus"}
\* one path more than the pathspec holds
OverflowArgv == [k \in 1..(MAX_PATHSPEC + 1) |-> "a.txt"]

NotStarted ==
    /\ pos = 0
    /\ o = OptsInit
    /\ repo = NoRepo
    /\ status = <<>>
    /\ out = <<>>
    /\ lifo = TRUE
    /\ built = FALSE
    /\ headerr = FALSE
    /\ exitcode = -1

\* a run of the program
Init ==
    /\ pc = "start"
    /\ argv \in SeqsUpTo(MainTokens, MaxArgc) \cup {OverflowArgv}
    /\ live = <<>>
    /\ NotStarted

Next ==
    \/ ThreadsInit \/ ParseArg \/ ParseFatal \/ ParseDone
    \/ OpenRepo \/ OpenFail \/ BareFatal \/ NotBare
    \/ StatusListNew \/ StatusListFail
    \/ NoBranch \/ ShowBranch \/ ShowBranchFatal
    \/ PrintLong \/ PrintShort
    \/ StatusListFree \/ RepositoryFree \/ ThreadsShutdown

Spec == Init /\ [][Next]_vars

\* parse_opts alone, over every token
ParseInit ==
    /\ pc = "start"
    /\ argv \in SeqsUpTo(Tokens, MaxArgc) \cup {OverflowArgv}
    /\ live = <<>>
    /\ NotStarted

ParseNext == ThreadsInit \/ ParseArg \/ ParseFatal \/ ParseDone

SpecParse == ParseInit /\ [][ParseNext]_vars

\* the renderers alone, over every status word: the run stands before the
\* dispatch on o.format in main
RenderInit ==
    /\ pc = "print"
    /\ argv = <<>>
    /\ pos = 1
    /\ \E f \in {FORMAT_LONG, FORMAT_SHORT, FORMAT_PORCELAIN} :
          o = Normalize([OptsInit EXCEPT !.format = f])
    /\ repo = [open |-> TRUE, bare |-> FALSE, head |-> HeadMain]
    /\ status \in RenderLists
    /\ out = <<>>
    /\ live = <<"threads", "repo", "status_list">>
    /\ lifo = TRUE
    /\ built = TRUE
    /\ headerr = FALSE
    /\ exitcode = -1

RenderNext == PrintLong \/ PrintShort

SpecRender == RenderInit /\ [][RenderNext]_vars

----------------------------------------------------------------------------
(* Properties *)

Range(q) == {q[k] : k \in DOMAIN q}
Printed == pc = "free_status"
Exited == pc \in {"done", "fatal"}
IsLong == o.format = FORMAT_LONG
\* the dispatch on o.format
Render(f, st) == IF f = FORMAT_LONG THEN print_long(st) ELSE print_short(st)
\* the lines written for entry i
LinesFor(i) == SelectSeq(out, LAMBDA l : l.i = i)
SecsFor(i) == {l.sec : l \in Range(LinesFor(i))}
PathsIn(ls) == UNION {Range(l.paths) : l \in Range(ls)}
NotCurrent(s) == s.status # {}

\* C1: an entry whose status is Current adds no line and no section header in
\* any format: the bytes written are those written for the list without its
\* Current entries.
C1_CurrentInvisible ==
    Printed => Bytes(out) = Bytes(Render(o.format, SelectSeq(status, NotCurrent)))

C1_Witness ==
    /\ Printed /\ IsLong
    /\ Len(status) = 2
    /\ status[1].status = {} /\ status[1].index_to_workdir.present
    /\ status[2].status = {"WT_DELETED"}
    /\ Len(out) > 1

C3_SamePaths ==
    Printed =>
        PathsIn(out) = PathsIn(IF IsLong THEN print_short(status) ELSE print_long(status))

\* C4 as claimed: the exit code is 0 exactly when git_status_list_new built
\* the status list.
C4_ExitZeroIffBuilt == Exited => (exitcode = 0 <=> built)

\* C4 as amended: the exit code is 0 exactly when the status list was built
\* and show_branch did not end the run on a git_repository_head error other
\* than unborn / not found; that failure comes after the list is built and
\* exits non-zero.
C4_ExitZeroIffBuiltAndHead ==
    /\ Exited => (exitcode = 0 <=> (built /\ ~headerr))
    /\ Exited /\ headerr => (built /\ exitcode # 0)

C4_Witness == pc = "fatal" /\ built /\ headerr /\ exitcode = 1

\* C5: on every exit, normal or fatal, every handle acquired so far has been
\* released, newest first.
C5_AllReleasedLifo == Exited => (live = <<>> /\ lifo)

\* C6 as claimed: "status -s" on a repository whose HEAD is branch main writes
\* "## main\n" and then the short body.
ShortOnly == argv \in {<<"-s">>, <<"--short">>}
ShortAndBranch ==
    /\ Len(argv) = 2
    /\ Range(argv) \cap {"-s", "--short"} # {}
    /\ "-b" \in Range(argv)
OnMain == repo.head = HeadMain
ModifiedATxt == <<Entry({"WT_MODIFIED"}, NoDelta, Delta("a.txt", "a.txt", "blob"), NoSm)>>

C6_BannerWithShort ==
    (pc = "done" /\ ShortOnly /\ OnMain) =>
        /\ status = <<>> => Bytes(out) = "## main\n"
        /\ status = ModifiedATxt => Bytes(out) = "## main\n M a.txt\n"

\* C6 as amended: "status -s" without -b writes no banner: nothing for an
\* empty status list and " M a.txt\n" for a.txt modified in the workdir; the
\* banner "## main\n" comes first only when -b is given too.
C6_NoBannerWithoutBranch ==
    /\ (pc = "done" /\ ShortOnly /\ OnMain) =>
          /\ status = <<>> => Bytes(out) = ""
          /\ status = ModifiedATxt => Bytes(out) = " M a.txt\n"
    /\ (pc = "done" /\ ShortAndBranch /\ OnMain) =>
          /\ status = <<>> => Bytes(out) = "## main\n"
          /\ status = ModifiedATxt => Bytes(out) = "## main\n M a.txt\n"

C6_Witness ==
    /\ pc = "done" /\ argv = <<"-s">> /\ OnMain
    /\ status = ModifiedATxt
    /\ Len(out) = 1

\* C7: after parse_opts the format is never default; it is the last explicit
\* format token, else porcelain if -z occurred, else long; showbranch is set
\* exactly when -b / --branch occurred or the format is long.
FormatTokens == {"-s", "--short", "--long", "--porcelain"}
FormatOf(a) ==
    IF a \in {"-s", "--short"} THEN FORMAT_SHORT
    ELSE IF a = "--long" THEN FORMAT_LONG ELSE FORMAT_PORCELAIN
LastFormatAt(q) ==
    CHOOSE k \in DOMAIN q : q[k] \in FormatTokens /\ \A j \in DOMAIN q : j > k => q[j] \notin FormatTokens
ExpectedFormat(q) ==
    IF Range(q) \cap FormatTokens # {} THEN FormatOf(q[LastFormatAt(q)])
    ELSE IF "-z" \in Range(q) THEN FORMAT_PORCELAIN
    ELSE FORMAT_LONG

C7_ParsedFormat ==
    pc = "open" =>
        /\ o.format # FORMAT_DEFAULT
        /\ o.format = ExpectedFormat(argv)
        /\ (o.showbranch = 1) <=>
              (Range(argv) \cap {"-b", "--branch"} # {} \/ o.format = FORMAT_LONG)

C7_Witness ==
    /\ pc = "open"
    /\ argv = <<"--short", "-z", "--branch">>
    /\ o.format = FORMAT_SHORT /\ o.zterm = 1 /\ o.showbranch = 1

\* C8 as claimed: an entry with WtNew set and no index-side bit, whatever else
\* is set, is rendered as untracked: "?? <path>" in print_short, a line under
\* "# Untracked files:" in print_long.
UntrackedLike(s) == "WT_NEW" \in s.status /\ s.status \cap IndexBits = {}

C8_UntrackedAnyMask ==
    Printed =>
        \A i \in DOMAIN status :
            UntrackedLike(status[i]) =>
                IF IsLong THEN "untracked" \in SecsFor(i)
                ELSE \E l \in Range(LinesFor(i)) :
                        Text(l) = "?? " \o status[i].index_to_workdir.old \o "\n"

\* C8 as amended: an entry whose status is WtNew alone is rendered as
\* untracked, once: "?? <path>" in print_short and a line under "# Untracked
\* files:" in print_long; with WtNew, no index-side bit and any further bit
\* there is no "??" line and no line under "# Untracked files:".
C8_UntrackedExact ==
    Printed =>
        \A i \in DOMAIN status :
            UntrackedLike(status[i]) =>
                IF status[i].status = {"WT_NEW"}
                THEN /\ Len(LinesFor(i)) = 1
                     /\ LinesFor(i)[1].sec = (IF IsLong THEN "untracked" ELSE "short_untracked")
                     /\ Text(LinesFor(i)[1]) =
                           (IF IsLong THEN "#\t" ELSE "?? ")
                           \o status[i].index_to_workdir.old \o "\n"
                ELSE /\ "untracked" \notin SecsFor(i)
                     /\ \A l \in Range(LinesFor(i)) : ~(l.x = "?" /\ l.y = "?")

C8_Witness ==
    /\ Printed /\ ~IsLong
    /\ Len(status) = 1
    /\ status[1].status = {"WT_NEW", "WT_MODIFIED"}
    /\ Len(out) = 1 /\ out[1].x = "?" /\ out[1].y = "M"

\* C9: with an index-side bit set and Ignored clear, the index glyph is that of
\* the highest set bit in the order Typechange > Renamed > Deleted > Modified
\* > New: X of print_short and the label of pass 1 of print_long.
PriorityBit(st) ==
    IF "INDEX_TYPECHANGE" \in st THEN "INDEX_TYPECHANGE"
    ELSE IF "INDEX_RENAMED" \in st THEN "INDEX_RENAMED"
    ELSE IF "INDEX_DELETED" \in st THEN "INDEX_DELETED"
    ELSE IF "INDEX_MODIFIED" \in st THEN "INDEX_MODIFIED"
    ELSE "INDEX_NEW"
GlyphOf(b) ==
    CASE b = "INDEX_TYPECHANGE" -> "T" [] b = "INDEX_RENAMED" -> "R"
      [] b = "INDEX_DELETED" -> "D" [] b = "INDEX_MODIFIED" -> "M" [] OTHER -> "A"
LabelOf(b) ==
    CASE b = "INDEX_TYPECHANGE" -> "typechange:" [] b = "INDEX_RENAMED" -> "renamed:  "
      [] b = "INDEX_DELETED" -> "deleted:  " [] b = "INDEX_MODIFIED" -> "modified: "
      [] OTHER -> "new file: "

C9_IndexGlyphPriority ==
    Printed =>
        \A i \in DOMAIN status :
            (status[i].status \cap IndexBits # {} /\ "IGNORED" \notin status[i].status) =>
                LET mine == SelectSeq(LinesFor(i), LAMBDA l : l.sec \in {"index", "short"})
                IN  /\ Len(mine) = 1
                    /\ IF IsLong THEN mine[1].lead = LabelOf(PriorityBit(status[i].status))
                       ELSE mine[1].x = GlyphOf(PriorityBit(status[i].status))

C9_Witness ==
    /\ Printed /\ ~IsLong
    /\ Len(status) = 1
    /\ status[1].status = {"INDEX_MODIFIED", "INDEX_RENAMED"}
    /\ Len(out) = 1 /\ out[1].x = "R"

\* C10: a line of the main pass of print_short carries the paths its final X
\* and Y call for: a b c for RR, a b for R and not R, a c for not R and R,
\* else a; a and b are headToIndex's old and new path, or indexToWorkdir's old
\* path without a headToIndex, and c is indexToWorkdir's new path.
PathA(s) == IF s.head_to_index.present THEN s.head_to_index.old ELSE s.index_to_workdir.old
PathB(s) == IF s.head_to_index.present THEN s.head_to_index.new ELSE s.index_to_workdir.old
PathC(s) == s.index_to_workdir.new

C10_ShortLinePaths ==
    (Printed /\ ~IsLong) =>
        \A k \in DOMAIN out :
            out[k].sec = "short" =>
                LET s == status[out[k].i]
                    x == out[k].x
                    y == out[k].y
                IN  out[k].paths =
                        (IF x = "R" /\ y = "R" THEN <<PathA(s), PathB(s), PathC(s)>>
                         ELSE IF x = "R" THEN <<PathA(s), PathB(s)>>
                         ELSE IF y = "R" THEN <<PathA(s), PathC(s)>>
                         ELSE <<PathA(s)>>)

C10_Witness ==
    /\ Printed /\ ~IsLong
    /\ \E k \in DOMAIN out :
          /\ out[k].x = "R" /\ out[k].y = "R"
          /\ out[k].paths = <<"a.txt", "b.txt", "c.txt">>
    /\ \E k \in DOMAIN out :
          /\ out[k].x # "R" /\ out[k].y = "R"
          /\ Len(out[k].paths) = 2

====
